---------------------------- MODULE Spec2Model ----------------------------
(***************************************************************************)
(* A model of the two calculators of the repository:                      *)
(*                                                                         *)
(*   src/flask_calculator_app.py   the /eval handler, its percent          *)
(*                                 pre-processing and safe_eval, the       *)
(*                                 allow-listed interpreter of a Python    *)
(*                                 syntax tree;                            *)
(*   src/caculator.py              the four-operation /api/calculate       *)
(*                                 handler.                                *)
(*                                                                         *)
(* Numbers.  A Python int or float is modelled by an exact rational        *)
(* [k, n, d] (kind, numerator, denominator > 0, in lowest terms).  A       *)
(* float is therefore the exact quotient, not its binary rounding.  A      *)
(* value whose numerator or denominator leaves -Cap..Cap and a power with  *)
(* a fractional exponent are the value Unrep, which every operator hands   *)
(* on; a syntax tree whose value is Unrep is not evaluated (EvalTree).     *)
(* Rounding, overflow to inf and OverflowError of floats are not           *)
(* modelled.                                                               *)
(***************************************************************************)
EXTENDS Integers, Sequences, FiniteSets, TLC

VARIABLES
    allowed,    \* the module-level dict ALLOWED_OPERATORS
    pc,         \* per request thread: the handler's position
    body,       \* per thread: the JSON body request.get_json() returns
    expr,       \* per thread: the local expr of evaluate()
    cleaned,    \* per thread: the local cleaned of evaluate()
    parsed,     \* per thread: the local parsed of safe_eval()
    result,     \* per thread: what safe_eval returned or raised, with its trace
    exc,        \* per thread: the exception caught by "except Exception as e"
    resp,       \* per thread: the response of /eval
    ghost,      \* history: one remembered (body, response) pair
    cpc,        \* /api/calculate: position of the handler
    creq,       \* /api/calculate: the JSON body
    cresp       \* /api/calculate: the response

vars == <<allowed, pc, body, expr, cleaned, parsed, result, exc, resp, ghost,
          cpc, creq, cresp>>

---------------------------------------------------------------------------
(* Bounds of the model.                                                    *)

\* Largest numerator / denominator the exact arithmetic keeps.
Cap == 10000
\* Largest number of nodes of a syntax tree drawn as input (below the root
\* Expression wrapper).
MaxNodes == 5
\* Longest expression string drawn as input.
MaxLen == 4

---------------------------------------------------------------------------
(* Exact arithmetic on Python numbers.                                     *)

Abs(x) == IF x < 0 THEN -x ELSE x

Sign(x) == IF x < 0 THEN -1 ELSE IF x = 0 THEN 0 ELSE 1

RECURSIVE GCD(_, _)
GCD(a, b) == IF b = 0 THEN a ELSE GCD(b, a % b)

Unrep == [k |-> "unrep", n |-> 0, d |-> 1]

\* The number n/d of kind k ("int" or "float"), in lowest terms; d # 0.
Ratio(k, n, d) ==
    LET g == GCD(Abs(n), Abs(d))
        nn == (Sign(d) * n) \div g
        dd == Abs(d) \div g
    IN  IF Abs(nn) > Cap \/ dd > Cap THEN Unrep
        ELSE [k |-> k, n |-> nn, d |-> dd]

IntV(i) == [k |-> "int", n |-> i, d |-> 1]

FloatV(n, d) == Ratio("float", n, d)

IsUnrep(v) == v.k = "unrep"

\* int op int is an int, anything with a float is a float.
JoinKind(a, b) == IF a.k = "int" /\ b.k = "int" THEN "int" ELSE "float"

\* Outcomes of an evaluation: a value or a raised exception.  at is the
\* path of the node that raised.
Val(v) == [tag |-> "val", v |-> v, kind |-> "", at |-> <<>>]

Exc(kind, at) == [tag |-> "exc", v |-> IntV(0), kind |-> kind, at |-> at]

IsVal(o) == o.tag = "val"

IsExc(o) == o.tag = "exc"

\* acc * b^e for e >= 0 and |b| >= 2, saturating once past Cap.
RECURSIVE IPowAcc(_, _, _)
IPowAcc(b, e, acc) ==
    IF e = 0 \/ Abs(acc) > Cap THEN acc
    ELSE IPowAcc(b, e - 1, acc * b)

\* b^e for e >= 0; beyond Cap in absolute value the exact result is not kept.
IPow(b, e) ==
    IF e = 0 THEN 1
    ELSE IF b = 0 THEN 0
    ELSE IF b = 1 THEN 1
    ELSE IF b = -1 THEN (IF e % 2 = 0 THEN 1 ELSE -1)
    ELSE IPowAcc(b, e, 1)

\* operator.add
add(a, b) ==
    IF IsUnrep(a) \/ IsUnrep(b) THEN Val(Unrep)
    ELSE Val(Ratio(JoinKind(a, b), a.n * b.d + b.n * a.d, a.d * b.d))

\* operator.sub
sub(a, b) ==
    IF IsUnrep(a) \/ IsUnrep(b) THEN Val(Unrep)
    ELSE Val(Ratio(JoinKind(a, b), a.n * b.d - b.n * a.d, a.d * b.d))

\* operator.mul
mul(a, b) ==
    IF IsUnrep(a) \/ IsUnrep(b) THEN Val(Unrep)
    ELSE Val(Ratio(JoinKind(a, b), a.n * b.n, a.d * b.d))

\* operator.truediv: always a float; a zero divisor of either kind raises.
truediv(a, b) ==
    IF ~IsUnrep(b) /\ b.n = 0 THEN Exc("ZeroDivisionError", <<>>)
    ELSE IF IsUnrep(a) \/ IsUnrep(b) THEN Val(Unrep)
    ELSE Val(Ratio("float", a.n * b.d, a.d * b.n))

\* operator.mod: a - b * floor(a / b), the sign of the divisor; a zero
\* divisor of either kind raises.
mod(a, b) ==
    IF ~IsUnrep(b) /\ b.n = 0 THEN Exc("ZeroDivisionError", <<>>)
    ELSE IF IsUnrep(a) \/ IsUnrep(b) THEN Val(Unrep)
    ELSE LET rem == (Sign(b.n) * a.n * b.d) % (a.d * Abs(b.n))
         IN  Val(Ratio(JoinKind(a, b), Sign(b.n) * rem, a.d * b.d))

\* operator.pow.  An int to a non-negative int is an int; to a negative int
\* it is a float, and zero to a negative power raises ZeroDivisionError.  A
\* power with a fractional exponent of a non-zero base is in general
\* irrational or complex: its value is not kept (Unrep).
pow(a, b) ==
    IF IsUnrep(a) \/ IsUnrep(b) THEN Val(Unrep)
    ELSE IF b.d # 1
         THEN IF a.n # 0 THEN Val(Unrep)
              ELSE IF b.n > 0 THEN Val(FloatV(0, 1))
              ELSE Exc("ZeroDivisionError", <<>>)
    ELSE IF b.n >= 0
         THEN LET pn == IPow(a.n, b.n)
                  pd == IPow(a.d, b.n)
              IN  IF Abs(pn) > Cap \/ pd > Cap THEN Val(Unrep)
                  ELSE Val(Ratio(JoinKind(a, b), pn, pd))
    ELSE IF a.n = 0 THEN Exc("ZeroDivisionError", <<>>)
    ELSE LET pn == IPow(a.d, -b.n)
             pd == IPow(a.n, -b.n)
         IN  IF Abs(pn) > Cap \/ Abs(pd) > Cap THEN Val(Unrep)
             ELSE Val(Ratio("float", pn, pd))

\* operator.neg
neg(a) == IF IsUnrep(a) THEN Val(Unrep) ELSE Val([a EXCEPT !.n = -a.n])

\* operator.pos
pos(a) == Val(a)

---------------------------------------------------------------------------
(* The allow-list and the syntax trees.                                    *)

\* ALLOWED_OPERATORS: operator tag -> function of the operator module.
ALLOWED_OPERATORS ==
    [tag \in {"Add", "Sub", "Mult", "Div", "Pow", "Mod", "USub", "UAdd"} |->
        CASE tag = "Add"  -> "add"
          [] tag = "Sub"  -> "sub"
          [] tag = "Mult" -> "mul"
          [] tag = "Div"  -> "truediv"
          [] tag = "Pow"  -> "pow"
          [] tag = "Mod"  -> "mod"
          [] tag = "USub" -> "neg"
          [] tag = "UAdd" -> "pos"]

\* The call ALLOWED_OPERATORS[op_type](left, right).
Apply2(fn, l, r) ==
    CASE fn = "add"     -> add(l, r)
      [] fn = "sub"     -> sub(l, r)
      [] fn = "mul"     -> mul(l, r)
      [] fn = "truediv" -> truediv(l, r)
      [] fn = "pow"     -> pow(l, r)
      [] fn = "mod"     -> mod(l, r)
      [] OTHER          -> Exc("TypeError", <<>>)

\* The call ALLOWED_OPERATORS[op_type](operand).
Apply1(fn, x) ==
    CASE fn = "neg" -> neg(x)
      [] fn = "pos" -> pos(x)
      [] OTHER      -> Exc("TypeError", <<>>)

\* A node of the tree ast.parse returns: its class, its operator tag (BinOp,
\* UnaryOp), its literal value (a numeric Constant) and its children.
Node(type, op, n, kids) == [type |-> type, op |-> op, n |-> n, kids |-> kids]

NumNode(v) == Node("Num", "", v, <<>>)

BinOp(l, op, r) == Node("BinOp", op, IntV(0), <<l, r>>)

UnaryOp(op, x) == Node("UnaryOp", op, IntV(0), <<x>>)

NameNode == Node("Name", "", IntV(0), <<>>)

\* A non-numeric Constant (a string, True, None, ...): no instance of ast.Num.
StrNode == Node("Constant", "", IntV(0), <<>>)

CallNode(arg) == Node("Call", "", IntV(0), <<arg>>)

TupleNode == Node("Tuple", "", IntV(0), <<>>)

Expression(b) == Node("Expression", "", IntV(0), <<b>>)

NoNode == Node("None", "", IntV(0), <<>>)

left(node) == node.kids[1]

right(node) == node.kids[2]

operand(node) == node.kids[1]

\* The operator tags the parser can put in a BinOp / UnaryOp of the model:
\* the allow-listed ones and one that is not.
BinTags == {"Add", "Sub", "Mult", "Div", "Pow", "Mod", "FloorDiv"}

UnaryTags == {"USub", "UAdd", "Invert"}

\* One step of the interpreter's trace.
Ev(ev, path, what) == [ev |-> ev, path |-> path, what |-> what]

\* What _eval gives: the outcome and the trace of the steps taken.
Res(out, log) == [out |-> out, log |-> log]

\* An exception raised by an operator function is raised at the node.
At(o, path) == IF IsExc(o) THEN Exc(o.kind, path) ELSE o

RECURSIVE _eval(_, _, _)

\* A BinOp that looks the operator up first and evaluates the right operand
\* before the left one.
EvalBinOpRightFirst(node, path, alw) ==
    IF node.op \notin DOMAIN alw
    THEN Res(Exc("UnsupportedOperator", path),
             <<Ev("lookup", path, node.op), Ev("raise", path, "UnsupportedOperator")>>)
    ELSE LET R == _eval(right(node), path \o <<2>>, alw)
             pre == <<Ev("lookup", path, node.op)>> \o R.log
         IN  IF IsExc(R.out) THEN Res(R.out, pre)
             ELSE LET L == _eval(left(node), path \o <<1>>, alw)
                  IN  IF IsExc(L.out) THEN Res(L.out, pre \o L.log)
                      ELSE Res(At(Apply2(alw[node.op], L.out.v, R.out.v), path),
                               pre \o L.log \o <<Ev("apply", path, alw[node.op])>>)

\* A BinOp whose unknown operator is skipped: the left value is returned.
EvalBinOpLenient(node, path, alw) ==
    LET L == _eval(left(node), path \o <<1>>, alw)
    IN  IF IsExc(L.out) THEN L
        ELSE LET R == _eval(right(node), path \o <<2>>, alw)
                 both == L.log \o R.log \o <<Ev("lookup", path, node.op)>>
             IN  IF IsExc(R.out) THEN Res(R.out, L.log \o R.log)
                 ELSE IF node.op \in DOMAIN alw
                      THEN Res(At(Apply2(alw[node.op], L.out.v, R.out.v), path),
                               both \o <<Ev("apply", path, alw[node.op])>>)
                      ELSE Res(L.out, both)

\* A BinOp that passes its operands to the function in the wrong order.
EvalBinOpSwapped(node, path, alw) ==
    LET L == _eval(left(node), path \o <<1>>, alw)
    IN  IF IsExc(L.out) THEN L
        ELSE LET R == _eval(right(node), path \o <<2>>, alw)
                 both == L.log \o R.log \o <<Ev("lookup", path, node.op)>>
             IN  IF IsExc(R.out) THEN Res(R.out, L.log \o R.log)
                 ELSE IF node.op \in DOMAIN alw
                      THEN Res(At(Apply2(alw[node.op], R.out.v, L.out.v), path),
                               both \o <<Ev("apply", path, alw[node.op])>>)
                      ELSE Res(Exc("UnsupportedOperator", path),
                               both \o <<Ev("raise", path, "UnsupportedOperator")>>)

\* A BinOp that guards a zero divisor by returning zero instead of raising.
EvalBinOpZeroGuard(node, path, alw) ==
    LET L == _eval(left(node), path \o <<1>>, alw)
    IN  IF IsExc(L.out) THEN L
        ELSE LET R == _eval(right(node), path \o <<2>>, alw)
                 both == L.log \o R.log \o <<Ev("lookup", path, node.op)>>
             IN  IF IsExc(R.out) THEN Res(R.out, L.log \o R.log)
                 ELSE IF node.op \in DOMAIN alw
                      THEN IF node.op \in {"Div", "Mod"} /\ R.out.v.n = 0
                           THEN Res(Val(FloatV(0, 1)), both)
                           ELSE Res(At(Apply2(alw[node.op], L.out.v, R.out.v), path),
                                    both \o <<Ev("apply", path, alw[node.op])>>)
                      ELSE Res(Exc("UnsupportedOperator", path),
                               both \o <<Ev("raise", path, "UnsupportedOperator")>>)

\* _eval on a BinOp: left, then right, then the allow-list, then the call.
EvalBinOp(node, path, alw) ==
    LET L == _eval(left(node), path \o <<1>>, alw)
    IN  IF IsExc(L.out) THEN L
        ELSE LET R == _eval(right(node), path \o <<2>>, alw)
                 both == L.log \o R.log \o <<Ev("lookup", path, node.op)>>
             IN  IF IsExc(R.out) THEN Res(R.out, L.log \o R.log)
                 ELSE IF node.op \in DOMAIN alw
                      THEN Res(At(Apply2(alw[node.op], L.out.v, R.out.v), path),
                               both \o <<Ev("apply", path, alw[node.op])>>)
                      ELSE Res(Exc("UnsupportedOperator", path),
                               both \o <<Ev("raise", path, "UnsupportedOperator")>>)

\* _eval on a UnaryOp: the operand, then the allow-list, then the call.
EvalUnaryOp(node, path, alw) ==
    LET X == _eval(operand(node), path \o <<1>>, alw)
        seen == X.log \o <<Ev("lookup", path, node.op)>>
    IN  IF IsExc(X.out) THEN X
        ELSE IF node.op \in DOMAIN alw
             THEN Res(At(Apply1(alw[node.op], X.out.v), path),
                      seen \o <<Ev("apply", path, alw[node.op])>>)
             ELSE Res(Exc("UnsupportedOperator", path),
                      seen \o <<Ev("raise", path, "UnsupportedOperator")>>)

\* A fallthrough that evaluates the children of a node of another kind.
EvalOtherDescend(node, path, alw) ==
    IF Len(node.kids) = 0
    THEN Res(Exc("UnsupportedExpression", path),
             <<Ev("raise", path, "UnsupportedExpression")>>)
    ELSE _eval(node.kids[1], path \o <<1>>, alw)

\* The last line of _eval: any other node raises, its children unvisited.
EvalOther(node, path, alw) ==
    Res(Exc("UnsupportedExpression", path),
        <<Ev("raise", path, "UnsupportedExpression")>>)

\* safe_eval._eval, by the class of the node.
_eval(node, path, alw) ==
    IF node.type = "Num" THEN Res(Val(node.n), <<Ev("num", path, "")>>)
    ELSE IF node.type = "Expression" THEN _eval(node.kids[1], path, alw)
    ELSE IF node.type = "BinOp" THEN EvalBinOp(node, path, alw)
    ELSE IF node.type = "UnaryOp" THEN EvalUnaryOp(node, path, alw)
    ELSE EvalOther(node, path, alw)

---------------------------------------------------------------------------
(* Strings (sequences of one-character strings) and the str methods the    *)
(* handler calls.                                                          *)

Digits == {"0", "1", "2", "3", "4", "5", "6", "7", "8", "9"}

DigitVal(c) ==
    CASE c = "0" -> 0 [] c = "1" -> 1 [] c = "2" -> 2 [] c = "3" -> 3
      [] c = "4" -> 4 [] c = "5" -> 5 [] c = "6" -> 6 [] c = "7" -> 7
      [] c = "8" -> 8 [] c = "9" -> 9

AllButLast(s) == SubSeq(s, 1, Len(s) - 1)

\* str.replace('×', '*').replace('÷', '/')
ReplaceSymbols(s) ==
    [i \in 1..Len(s) |-> IF s[i] = "×" THEN "*" ELSE IF s[i] = "÷" THEN "/" ELSE s[i]]

\* str.endswith('%')
EndsWithPercent(s) == Len(s) > 0 /\ s[Len(s)] = "%"

RECURSIVE LStrip(_)
LStrip(s) == IF Len(s) > 0 /\ s[1] = " " THEN LStrip(Tail(s)) ELSE s

RECURSIVE RStrip(_)
RStrip(s) == IF Len(s) > 0 /\ s[Len(s)] = " " THEN RStrip(AllButLast(s)) ELSE s

\* str.strip()
Strip(s) == RStrip(LStrip(s))

\* str.replace('.', '', 1): the first '.' removed.
RECURSIVE RemoveFirstDot(_)
RemoveFirstDot(s) ==
    IF Len(s) = 0 THEN s
    ELSE IF s[1] = "." THEN Tail(s)
    ELSE <<s[1]>> \o RemoveFirstDot(Tail(s))

\* str.isdigit(): not empty, every character a digit.
IsDigit(s) == Len(s) > 0 /\ \A i \in 1..Len(s) : s[i] \in Digits

\* The condition of line 197.
IsPercentSuffix(c) ==
    EndsWithPercent(c) /\ IsDigit(RemoveFirstDot(Strip(AllButLast(c))))

\* f"({cleaned[:-1]})/100"
PercentRewrite(c) == <<"(">> \o AllButLast(c) \o <<")", "/", "1", "0", "0">>

\* Lines 194-198: the value of cleaned handed to safe_eval.
Cleaned(e) ==
    LET c == ReplaceSymbols(e)
    IN  IF IsPercentSuffix(c) THEN PercentRewrite(c) ELSE c

---------------------------------------------------------------------------
(* ast.parse(expr, mode='eval') on the characters of the model: decimal    *)
(* literals, + - * / // % ** ~ ..., parentheses and blanks.                *)

Tok(t, s, v) == [t |-> t, s |-> s, v |-> v]

BadTok == Tok("bad", "", IntV(0))

\* Index of the first character at or after i that is not a digit.
RECURSIVE DigitsEnd(_, _)
DigitsEnd(s, i) ==
    IF i <= Len(s) /\ s[i] \in Digits THEN DigitsEnd(s, i + 1) ELSE i

\* The value of the digits s[i..j-1] continuing acc, capped past Cap * 10.
RECURSIVE DigitsValue(_, _, _, _)
DigitsValue(s, i, j, acc) ==
    IF i >= j THEN acc
    ELSE IF acc > Cap THEN acc
    ELSE DigitsValue(s, i + 1, j, acc * 10 + DigitVal(s[i]))

\* 10^k, capped past Cap * 10.
RECURSIVE Pow10(_)
Pow10(k) == IF k = 0 THEN 1 ELSE IF k > 6 THEN 10 * Cap + 1 ELSE 10 * Pow10(k - 1)

AllZero(s, i, j) == \A x \in i..(j - 1) : s[x] = "0"

\* The number token that starts at s[i] (a digit, or a '.' before a digit):
\* the token and the index after it.
NumberTok(s, i) ==
    LET j == DigitsEnd(s, i)
        hasDot == j <= Len(s) /\ s[j] = "."
        k == IF hasDot THEN DigitsEnd(s, j + 1) ELSE j
        ip == DigitsValue(s, i, j, 0)
        fp == DigitsValue(s, j + 1, k, 0)
        scale == Pow10(k - j - 1)
    IN  IF ~hasDot
        THEN IF j - i > 1 /\ s[i] = "0" /\ ~AllZero(s, i, j)
             THEN [tok |-> BadTok, next |-> j]
             ELSE [tok |-> Tok("num", "", IF ip > Cap THEN Unrep ELSE IntV(ip)),
                   next |-> j]
        ELSE [tok |-> Tok("num", "",
                          IF ip > Cap \/ fp > Cap \/ scale > Cap THEN Unrep
                          ELSE FloatV(ip * scale + fp, scale)),
              next |-> k]

\* The tokens of s from index i on.
RECURSIVE Tokens(_, _)
Tokens(s, i) ==
    IF i > Len(s) THEN <<>>
    ELSE IF s[i] = " " THEN Tokens(s, i + 1)
    ELSE IF s[i] \in Digits \/ (s[i] = "." /\ i < Len(s) /\ s[i + 1] \in Digits)
         THEN LET nt == NumberTok(s, i)
              IN  <<nt.tok>> \o Tokens(s, nt.next)
    ELSE IF s[i] = "." /\ i + 2 <= Len(s) /\ s[i + 1] = "." /\ s[i + 2] = "."
         THEN <<Tok("ellipsis", "...", IntV(0))>> \o Tokens(s, i + 3)
    ELSE IF s[i] = "*" /\ i < Len(s) /\ s[i + 1] = "*"
         THEN <<Tok("op", "**", IntV(0))>> \o Tokens(s, i + 2)
    ELSE IF s[i] = "/" /\ i < Len(s) /\ s[i + 1] = "/"
         THEN <<Tok("op", "//", IntV(0))>> \o Tokens(s, i + 2)
    ELSE IF s[i] \in {"+", "-", "*", "/", "%", "~", "(", ")", "."}
         THEN <<Tok("op", s[i], IntV(0))>> \o Tokens(s, i + 1)
    ELSE <<BadTok>> \o Tokens(s, i + 1)

IsOp(toks, i, ops) == i <= Len(toks) /\ toks[i].t = "op" /\ toks[i].s \in ops

BinTag(s) ==
    CASE s = "+" -> "Add" [] s = "-" -> "Sub" [] s = "*" -> "Mult"
      [] s = "/" -> "Div" [] s = "//" -> "FloorDiv" [] s = "%" -> "Mod"
      [] s = "**" -> "Pow"

UnaryTag(s) == CASE s = "+" -> "UAdd" [] s = "-" -> "USub" [] s = "~" -> "Invert"

\* A parse: whether it succeeded, the node, the index of the next token.
Parsed(node, next) == [ok |-> TRUE, node |-> node, next |-> next]

NoParse == [ok |-> FALSE, node |-> NoNode, next |-> 0]

\* The recursive-descent parser, one grammar rule per branch; acc is the
\* left operand built so far by the two left-associative rules.
\*   sum:    term (('+' | '-') term)*
\*   term:   factor (('*' | '/' | '//' | '%') factor)*
\*   factor: ('+' | '-' | '~') factor | power
\*   power:  atom ['**' factor]
\*   atom:   NUMBER | '...' | '(' sum ')' | '(' ')'
RECURSIVE ParseRule(_, _, _, _)
ParseRule(rule, toks, i, acc) ==
    CASE rule = "sum" ->
            LET t == ParseRule("term", toks, i, NoNode)
            IN  IF t.ok THEN ParseRule("sum_rest", toks, t.next, t.node) ELSE NoParse
      [] rule = "sum_rest" ->
            IF IsOp(toks, i, {"+", "-"})
            THEN LET t == ParseRule("term", toks, i + 1, NoNode)
                 IN  IF t.ok
                     THEN ParseRule("sum_rest", toks, t.next,
                                    BinOp(acc, BinTag(toks[i].s), t.node))
                     ELSE NoParse
            ELSE Parsed(acc, i)
      [] rule = "term" ->
            LET f == ParseRule("factor", toks, i, NoNode)
            IN  IF f.ok THEN ParseRule("term_rest", toks, f.next, f.node) ELSE NoParse
      [] rule = "term_rest" ->
            IF IsOp(toks, i, {"*", "/", "//", "%"})
            THEN LET f == ParseRule("factor", toks, i + 1, NoNode)
                 IN  IF f.ok
                     THEN ParseRule("term_rest", toks, f.next,
                                    BinOp(acc, BinTag(toks[i].s), f.node))
                     ELSE NoParse
            ELSE Parsed(acc, i)
      [] rule = "factor" ->
            IF IsOp(toks, i, {"+", "-", "~"})
            THEN LET f == ParseRule("factor", toks, i + 1, NoNode)
                 IN  IF f.ok THEN Parsed(UnaryOp(UnaryTag(toks[i].s), f.node), f.next)
                     ELSE NoParse
            ELSE ParseRule("power", toks, i, NoNode)
      [] rule = "power" ->
            LET a == ParseRule("atom", toks, i, NoNode)
            IN  IF ~a.ok THEN NoParse
                ELSE IF IsOp(toks, a.next, {"**"})
                     THEN LET f == ParseRule("factor", toks, a.next + 1, NoNode)
                          IN  IF f.ok THEN Parsed(BinOp(a.node, "Pow", f.node), f.next)
                              ELSE NoParse
                ELSE a
      [] rule = "atom" ->
            IF i > Len(toks) THEN NoParse
            ELSE IF toks[i].t = "num" THEN Parsed(NumNode(toks[i].v), i + 1)
            ELSE IF toks[i].t = "ellipsis" THEN Parsed(StrNode, i + 1)
            ELSE IF IsOp(toks, i, {"("})
                 THEN IF IsOp(toks, i + 1, {")"}) THEN Parsed(TupleNode, i + 2)
                      ELSE LET e == ParseRule("sum", toks, i + 1, NoNode)
                           IN  IF e.ok /\ IsOp(toks, e.next, {")"})
                               THEN Parsed(e.node, e.next + 1)
                               ELSE NoParse
            ELSE NoParse

\* ast.parse(expr, mode='eval'): the Expression tree, or ok = FALSE for a
\* SyntaxError (an IndentationError for a leading blank is one).
ast_parse(s) ==
    IF Len(s) = 0 \/ s[1] = " " THEN NoParse
    ELSE LET toks == Tokens(s, 1)
             p == ParseRule("sum", toks, 1, NoNode)
         IN  IF (\E i \in 1..Len(toks) : toks[i].t = "bad") THEN NoParse
             ELSE IF p.ok /\ p.next = Len(toks) + 1
                  THEN Parsed(Expression(p.node), p.next)
                  ELSE NoParse

---------------------------------------------------------------------------
(* The /eval handler, one request thread at a time.                        *)

Threads == {1, 2}

\* A str value, or a value of another JSON type.
Str(s) == [isstr |-> TRUE, s |-> s]

NotStr == [isstr |-> FALSE, s |-> <<>>]

\* What request.get_json() returns: a JSON value.  truthy is Python's
\* truth value of it, has whether an object holds the key 'expr'.
Json(json, truthy, has, e) == [json |-> json, truthy |-> truthy, has |-> has, expr |-> e]

NoBody == Json("none", FALSE, FALSE, Str(<<>>))

NoRes == Res(Val(IntV(0)), <<>>)

\* A response: the HTTP status and the JSON object sent, keys naming the
\* fields it holds.
Response(status, keys, ok, res, input, error) ==
    [status |-> status, keys |-> keys, ok |-> ok, result |-> res,
     input |-> input, error |-> error]

NoResp == Response(0, {}, FALSE, IntV(0), Str(<<>>), "")

\* jsonify(ok=True, result=result, input=expr)
OkResponse(v, e) == Response(200, {"ok", "result", "input"}, TRUE, v, e, "")

\* jsonify(ok=False, error=str(e))
ErrorResponse(kind) == Response(200, {"ok", "error"}, FALSE, IntV(0), Str(<<>>), kind)

\* An exception that leaves the view function: the framework answers 500.
Fault(kind) == Response(500, {}, FALSE, IntV(0), Str(<<>>), kind)

\* Lines 190-191, before the try: data = request.get_json() or {} and
\* expr = data.get('expr', '').  A truthy value that is no object has no get.
Receive(t, b) ==
    /\ pc[t] = "idle"
    /\ body' = [body EXCEPT ![t] = b]
    /\ IF b.truthy /\ b.json # "object"
       THEN /\ pc' = [pc EXCEPT ![t] = "fault"]
            /\ resp' = [resp EXCEPT ![t] = Fault("AttributeError")]
            /\ UNCHANGED expr
       ELSE /\ pc' = [pc EXCEPT ![t] = "try"]
            /\ expr' = [expr EXCEPT ![t] =
                          IF b.truthy /\ b.has THEN b.expr ELSE Str(<<>>)]
            /\ UNCHANGED resp
    /\ UNCHANGED <<allowed, cleaned, parsed, result, exc, ghost, cpc, creq, cresp>>

\* A Clean that keeps cleaned in one variable shared by all threads.
CleanShared(t) ==
    /\ pc[t] = "try"
    /\ IF expr[t].isstr
       THEN /\ cleaned' = [u \in Threads |-> Cleaned(expr[t].s)]
            /\ pc' = [pc EXCEPT ![t] = "clean"]
            /\ UNCHANGED exc
       ELSE /\ exc' = [exc EXCEPT ![t] = "AttributeError"]
            /\ pc' = [pc EXCEPT ![t] = "except"]
            /\ UNCHANGED cleaned
    /\ UNCHANGED <<allowed, body, expr, parsed, result, resp, ghost, cpc, creq, cresp>>

\* Lines 194-198: cleaned.  A value of expr that is no str has no replace.
Clean(t) ==
    /\ pc[t] = "try"
    /\ IF expr[t].isstr
       THEN /\ cleaned' = [cleaned EXCEPT ![t] = Cleaned(expr[t].s)]
            /\ pc' = [pc EXCEPT ![t] = "clean"]
            /\ UNCHANGED exc
       ELSE /\ exc' = [exc EXCEPT ![t] = "AttributeError"]
            /\ pc' = [pc EXCEPT ![t] = "except"]
            /\ UNCHANGED cleaned
    /\ UNCHANGED <<allowed, body, expr, parsed, result, resp, ghost, cpc, creq, cresp>>

\* Line 45: parsed = ast.parse(expr, mode='eval').
Parse(t) ==
    /\ pc[t] = "clean"
    /\ LET p == ast_parse(cleaned[t])
       IN  IF p.ok
           THEN /\ parsed' = [parsed EXCEPT ![t] = p.node]
                /\ pc' = [pc EXCEPT ![t] = "parsed"]
                /\ UNCHANGED exc
           ELSE /\ exc' = [exc EXCEPT ![t] = "SyntaxError"]
                /\ pc' = [pc EXCEPT ![t] = "except"]
                /\ UNCHANGED parsed
    /\ UNCHANGED <<allowed, body, expr, cleaned, result, resp, ghost, cpc, creq, cresp>>

\* Line 46: return _eval(parsed), reading ALLOWED_OPERATORS.
Eval(t) ==
    /\ pc[t] = "parsed"
    /\ LET r == _eval(parsed[t], <<>>, allowed)
       IN  /\ result' = [result EXCEPT ![t] = r]
           /\ IF IsExc(r.out)
              THEN /\ exc' = [exc EXCEPT ![t] = r.out.kind]
                   /\ pc' = [pc EXCEPT ![t] = "except"]
              ELSE /\ pc' = [pc EXCEPT ![t] = "value"]
                   /\ UNCHANGED exc
    /\ UNCHANGED <<allowed, body, expr, cleaned, parsed, resp, ghost, cpc, creq, cresp>>

\* Line 200: return jsonify(ok=True, result=result, input=expr).
Respond(t) ==
    /\ pc[t] = "value"
    /\ resp' = [resp EXCEPT ![t] = OkResponse(result[t].out.v, expr[t])]
    /\ pc' = [pc EXCEPT ![t] = "done"]
    /\ UNCHANGED <<allowed, body, expr, cleaned, parsed, result, exc, ghost, cpc, creq, cresp>>

\* Lines 201-202: except Exception as e: return jsonify(ok=False, error=str(e)).
Except(t) ==
    /\ pc[t] = "except"
    /\ resp' = [resp EXCEPT ![t] = ErrorResponse(exc[t])]
    /\ pc' = [pc EXCEPT ![t] = "done"]
    /\ UNCHANGED <<allowed, body, expr, cleaned, parsed, result, exc, ghost, cpc, creq, cresp>>

\* The request is over: the thread's locals are gone and it takes the next.
Return(t) ==
    /\ pc[t] \in {"done", "fault"}
    /\ pc' = [pc EXCEPT ![t] = "idle"]
    /\ body' = [body EXCEPT ![t] = NoBody]
    /\ expr' = [expr EXCEPT ![t] = Str(<<>>)]
    /\ cleaned' = [cleaned EXCEPT ![t] = <<>>]
    /\ parsed' = [parsed EXCEPT ![t] = NoNode]
    /\ result' = [result EXCEPT ![t] = NoRes]
    /\ exc' = [exc EXCEPT ![t] = ""]
    /\ resp' = [resp EXCEPT ![t] = NoResp]
    /\ UNCHANGED <<allowed, ghost, cpc, creq, cresp>>

Finished(t) == pc[t] \in {"done", "fault"}

---------------------------------------------------------------------------
(* Inputs.                                                                 *)

\* The characters of the expression strings drawn as input.
Alphabet == {"5", "0", ".", "%", " ", "-", "/", "×"}

RECURSIVE StringsOfLen(_)
StringsOfLen(n) ==
    IF n = 0 THEN {<<>>}
    ELSE {<<c>> \o s : c \in Alphabet, s \in StringsOfLen(n - 1)}

\* The strings of at most n characters.
StringsUpTo(n) == UNION {StringsOfLen(k) : k \in 0..n}

\* The outcome of safe_eval on the string the handler makes of e.
SafeEvalOf(e) ==
    LET p == ast_parse(Cleaned(e))
    IN  IF p.ok THEN _eval(p.node, <<>>, ALLOWED_OPERATORS).out
        ELSE Exc("SyntaxError", <<>>)

\* Inputs whose result the exact arithmetic keeps.
Representable(o) == IsExc(o) \/ ~IsUnrep(o.v)

\* JSON bodies: values that are no object (a list, a string, a number, null,
\* an empty list), objects without 'expr', with an 'expr' that is no string,
\* and with the strings of the model.
NonStringBodies ==
    {Json("array", TRUE, FALSE, NotStr), Json("array", FALSE, FALSE, NotStr),
     Json("string", TRUE, FALSE, NotStr), Json("number", TRUE, FALSE, NotStr),
     Json("null", FALSE, FALSE, NotStr),
     Json("object", FALSE, FALSE, NotStr), Json("object", TRUE, FALSE, NotStr),
     Json("object", TRUE, TRUE, NotStr)}

StringBody(s) == Json("object", TRUE, TRUE, Str(s))

Bodies(n) ==
    NonStringBodies
    \cup {StringBody(s) : s \in {x \in StringsUpTo(n) : Representable(SafeEvalOf(x))}}

\* Syntax trees as the parser builds them from full Python source: numeric
\* literals, a name, a call, and the model's operator tags.
Literals == {IntV(0), IntV(2), IntV(3), IntV(4)}

Leaves == {NumNode(v) : v \in Literals} \cup {NameNode}

RECURSIVE Size(_)
Size(node) ==
    IF Len(node.kids) = 0 THEN 1
    ELSE IF Len(node.kids) = 1 THEN 1 + Size(node.kids[1])
    ELSE 1 + Size(node.kids[1]) + Size(node.kids[2])

\* The trees of exactly n nodes.
RECURSIVE Trees(_)
Trees(n) ==
    IF n = 1 THEN Leaves
    ELSE {UnaryOp(op, x) : op \in UnaryTags, x \in Trees(n - 1)}
         \cup {CallNode(x) : x \in Trees(n - 1)}
         \cup UNION {{BinOp(l, op, r) : op \in BinTags, l \in Trees(i),
                                        r \in Trees(n - 1 - i)} :
                     i \in 1..(n - 2)}

\* The smaller operand of a binary node of at most MaxNodes nodes.
SmallTrees == UNION {Trees(k) : k \in 1..((MaxNodes - 1) \div 2)}

---------------------------------------------------------------------------
(* Specifications.                                                         *)

Idle ==
    /\ allowed = ALLOWED_OPERATORS
    /\ pc = [t \in Threads |-> "idle"]
    /\ body = [t \in Threads |-> NoBody]
    /\ expr = [t \in Threads |-> Str(<<>>)]
    /\ cleaned = [t \in Threads |-> <<>>]
    /\ parsed = [t \in Threads |-> NoNode]
    /\ result = [t \in Threads |-> NoRes]
    /\ exc = [t \in Threads |-> ""]
    /\ resp = [t \in Threads |-> NoResp]

NoGhost == [set |-> FALSE, by |-> 0, body |-> NoBody, resp |-> NoResp]

CalcIdle ==
    /\ cpc = "idle"
    /\ creq = [isdict |-> FALSE]
    /\ cresp = [status |-> 0]

Init == Idle /\ ghost = NoGhost /\ CalcIdle

\* A request arrives with any body of the model.
ReceiveAny == pc[1] = "idle" /\ \E b \in Bodies(MaxLen) : Receive(1, b)

\* One request after another handled by one thread.
Next ==
    \/ ReceiveAny
    \/ Clean(1)
    \/ Parse(1)
    \/ Eval(1)
    \/ Respond(1)
    \/ Except(1)
    \/ Return(1)

Spec == Init /\ [][Next]_vars

\* The body of the Expression the thread holds.
Root(t) == parsed[t].kids[1]

Holds(t, tr) ==
    /\ parsed' = [parsed EXCEPT ![t] = Expression(tr)]
    /\ UNCHANGED <<allowed, pc, body, expr, cleaned, result, exc, resp, ghost,
                   cpc, creq, cresp>>

\* The nodes the tree the thread holds may still gain.
Room(t) == MaxNodes - Size(Root(t))

\* The source text held one more operator: the parser returns the tree
\* under a unary operator or a call, or as an operand of a binary operator.
GrowUnary(t) ==
    /\ pc[t] = "parsed" /\ Room(t) >= 1
    /\ \E op \in UnaryTags : Holds(t, UnaryOp(op, Root(t)))

GrowCall(t) ==
    /\ pc[t] = "parsed" /\ Room(t) >= 1
    /\ Holds(t, CallNode(Root(t)))

GrowLeft(t) ==
    /\ pc[t] = "parsed" /\ Room(t) >= 2
    /\ \E op \in BinTags, o \in {x \in SmallTrees : Size(x) < Room(t)} :
          Holds(t, BinOp(Root(t), op, o))

GrowRight(t) ==
    /\ pc[t] = "parsed" /\ Room(t) >= 2
    /\ \E op \in BinTags, o \in {x \in SmallTrees : Size(x) < Room(t)} :
          Holds(t, BinOp(o, op, Root(t)))

\* safe_eval on a tree the parser returned for some source text.
InitTree ==
    /\ allowed = ALLOWED_OPERATORS
    /\ pc = [t \in Threads |-> IF t = 1 THEN "parsed" ELSE "idle"]
    /\ body = [t \in Threads |-> NoBody]
    /\ expr = [t \in Threads |-> Str(<<>>)]
    /\ cleaned = [t \in Threads |-> <<>>]
    /\ \E tr \in Leaves :
          parsed = [t \in Threads |-> IF t = 1 THEN Expression(tr) ELSE NoNode]
    /\ result = [t \in Threads |-> NoRes]
    /\ exc = [t \in Threads |-> ""]
    /\ resp = [t \in Threads |-> NoResp]
    /\ ghost = NoGhost
    /\ CalcIdle

\* Trees whose value the exact arithmetic does not keep are not evaluated.
EvalTree ==
    /\ pc[1] = "parsed"
    /\ Representable(_eval(parsed[1], <<>>, ALLOWED_OPERATORS).out)
    /\ Eval(1)

NextTree ==
    \/ GrowUnary(1)
    \/ GrowCall(1)
    \/ GrowLeft(1)
    \/ GrowRight(1)
    \/ EvalTree
    \/ Respond(1)
    \/ Except(1)

SpecTree == InitTree /\ [][NextTree]_vars

---------------------------------------------------------------------------
(* Two request threads of /eval side by side.                              *)

Chars(a, b, c) == <<a, b, c>>

\* The bodies the two threads draw from.
ConcBodies ==
    {Json("array", TRUE, FALSE, NotStr), Json("object", TRUE, TRUE, NotStr),
     StringBody(Chars("5", "0", "%")), StringBody(Chars("5", "/", "0")),
     StringBody(Chars("5", "×", "5")), StringBody(Chars("5", "%", " "))}

\* The history variable takes the finished request of thread t, once.
Remember(t) ==
    /\ Finished(t)
    /\ ~ghost.set
    /\ ghost' = [set |-> TRUE, by |-> t, body |-> body[t], resp |-> resp[t]]
    /\ UNCHANGED <<allowed, pc, body, expr, cleaned, parsed, result, exc, resp,
                   cpc, creq, cresp>>

NextConc ==
    \E t \in Threads :
        \/ \E b \in ConcBodies : Receive(t, b)
        \/ Clean(t)
        \/ Parse(t)
        \/ Eval(t)
        \/ Respond(t)
        \/ Except(t)
        \/ Return(t)
        \/ Remember(t)

SpecConc == Init /\ [][NextConc]_vars

---------------------------------------------------------------------------
(* src/caculator.py: POST /api/calculate.                                  *)

\* A field of the JSON object: absent, or a value float() takes ("num", a
\* number or a numeric string), a string float() refuses ("text"), a value
\* of a type float() refuses (null, a list: "null"), or an integer too
\* large for a float ("huge").
Field(kind, v) == [kind |-> kind, v |-> v]

Absent == Field("absent", FloatV(0, 1))

NumFields == {Field("num", FloatV(n, 1)) : n \in {0, 1, 2, -3}} \cup {Field("num", FloatV(1, 2))}

FieldValues ==
    NumFields \cup {Absent, Field("text", FloatV(0, 1)), Field("null", FloatV(0, 1)),
                    Field("huge", FloatV(0, 1))}

Operations == {"add", "subtract", "multiply", "divide", "power", "absent", "notastring"}

\* The body of a request: a JSON object with num1, num2, operation, or a
\* JSON value that is no object.
CalcRequest(isdict, n1, n2, operation) ==
    [isdict |-> isdict, num1 |-> n1, num2 |-> n2, operation |-> operation]

CalcRequests ==
    {CalcRequest(TRUE, a, b, o) : a \in FieldValues, b \in FieldValues, o \in Operations}
    \cup {CalcRequest(FALSE, Absent, Absent, "absent")}

\* What float(data[key]) raises, "" when it returns.
FloatRaises(isdict, f) ==
    IF ~isdict THEN "TypeError"
    ELSE CASE f.kind = "absent" -> "KeyError"
           [] f.kind = "text"   -> "ValueError"
           [] f.kind = "null"   -> "TypeError"
           [] f.kind = "huge"   -> "OverflowError"
           [] OTHER             -> ""

CalcResponse(status, keys, res, error) ==
    [status |-> status, keys |-> keys, result |-> res, error |-> error]

NoCalcResponse == CalcResponse(0, {}, FloatV(0, 1), "")

\* jsonify({'result': result})
CalcOk(v) == CalcResponse(200, {"result"}, v, "")

\* jsonify({'error': ...}), 400
CalcError(msg) == CalcResponse(400, {"error"}, FloatV(0, 1), msg)

\* except (ValueError, KeyError, TypeError); any other exception leaves the
\* view function and the framework answers 500.
CalcCaught == {"ValueError", "KeyError", "TypeError"}

CalcRaise(kind) ==
    IF kind \in CalcCaught THEN CalcError("Invalid input! Please provide valid numbers.")
    ELSE CalcResponse(500, {}, FloatV(0, 1), kind)

\* calculate(), lines 13-35.
calculate(r) ==
    IF FloatRaises(r.isdict, r.num1) # "" THEN CalcRaise(FloatRaises(r.isdict, r.num1))
    ELSE IF FloatRaises(r.isdict, r.num2) # "" THEN CalcRaise(FloatRaises(r.isdict, r.num2))
    ELSE IF r.operation = "absent" THEN CalcRaise("KeyError")
    ELSE IF r.operation = "add" THEN CalcOk(add(r.num1.v, r.num2.v).v)
    ELSE IF r.operation = "subtract" THEN CalcOk(sub(r.num1.v, r.num2.v).v)
    ELSE IF r.operation = "multiply" THEN CalcOk(mul(r.num1.v, r.num2.v).v)
    ELSE IF r.operation = "divide"
         THEN IF r.num2.v.n = 0 THEN CalcError("Division by zero is not allowed!")
              ELSE CalcOk(truediv(r.num1.v, r.num2.v).v)
    ELSE CalcError("Invalid operation!")

CalcInit ==
    /\ Idle
    /\ ghost = NoGhost
    /\ cpc = "idle"
    /\ creq = CalcRequest(FALSE, Absent, Absent, "absent")
    /\ cresp = NoCalcResponse

\* A POST arrives.
CalcReceive ==
    /\ cpc = "idle"
    /\ \E r \in CalcRequests : creq' = r
    /\ cpc' = "called"
    /\ cresp' = NoCalcResponse
    /\ UNCHANGED <<allowed, pc, body, expr, cleaned, parsed, result, exc, resp, ghost>>

\* The view function runs to its return or to an uncaught exception.
CalcHandle ==
    /\ cpc = "called"
    /\ cresp' = calculate(creq)
    /\ cpc' = "done"
    /\ UNCHANGED <<allowed, pc, body, expr, cleaned, parsed, result, exc, resp, ghost, creq>>

\* The response is sent.
CalcReturn ==
    /\ cpc = "done"
    /\ cpc' = "idle"
    /\ UNCHANGED <<allowed, pc, body, expr, cleaned, parsed, result, exc, resp, ghost,
                   creq, cresp>>

NextCalc == CalcReceive \/ CalcHandle \/ CalcReturn

SpecCalc == CalcInit /\ [][NextCalc]_vars

---------------------------------------------------------------------------
(* Paths of a tree and the reference evaluator, for stating the            *)
(* properties.                                                             *)

\* The paths of the nodes of a tree in left-to-right post-order.
RECURSIVE PostOrder(_, _)
PostOrder(node, path) ==
    IF Len(node.kids) = 0 THEN <<path>>
    ELSE IF Len(node.kids) = 1
         THEN PostOrder(node.kids[1], path \o <<1>>) \o <<path>>
    ELSE PostOrder(node.kids[1], path \o <<1>>)
         \o PostOrder(node.kids[2], path \o <<2>>) \o <<path>>

RECURSIVE Sub(_, _)
Sub(node, path) ==
    IF Len(path) = 0 THEN node ELSE Sub(node.kids[Head(path)], Tail(path))

Range(seq) == {seq[i] : i \in 1..Len(seq)}

Pos(seq, x) == CHOOSE i \in 1..Len(seq) : seq[i] = x

\* q is p or lies below p.
Under(q, p) == Len(p) <= Len(q) /\ SubSeq(q, 1, Len(p)) = p

Below(q, p) == Under(q, p) /\ q # p

Supported == {"Num", "BinOp", "UnaryOp"}

\* Thread 1 has run _eval on its tree.
Evaluated == Len(result[1].log) > 0

\* safe_eval has just returned or raised in thread 1.
Returned == pc[1] \in {"value", "except"} /\ Evaluated

TheTree == Root(1)

ThePaths == Range(PostOrder(TheTree, <<>>))

TheLog == result[1].log

TheOut == result[1].out

\* The nodes of another kind, and those of them not inside another one.
Others == {p \in ThePaths : Sub(TheTree, p).type \notin Supported}

TopOthers == LET os == Others IN {p \in os : ~\E q \in os : Below(p, q)}

\* The value of the subtree at p evaluated on its own.
Alone(p) == _eval(Sub(TheTree, p), p, ALLOWED_OPERATORS).out

\* Node p was evaluated to a value or to an exception of its operator.
Visited(p) ==
    LET log == TheLog
    IN  \E i \in 1..Len(log) : log[i].path = p /\ log[i].ev \in {"num", "apply"}

IsZero(v) == ~IsUnrep(v) /\ v.n = 0

\* The reference evaluator: the rational value of an arithmetic tree, by
\* the usual meaning of the operators.  undef where it divides by zero,
\* big where the value is not kept.
RefVal(n, d) == [st |-> "ok", n |-> n, d |-> d]

RefUndef == [st |-> "undef", n |-> 0, d |-> 1]

RefBig == [st |-> "big", n |-> 0, d |-> 1]

RefNorm(n, d) ==
    LET r == Ratio("float", n, d)
    IN  IF IsUnrep(r) THEN RefBig ELSE RefVal(r.n, r.d)

RefBin(op, a, b) ==
    IF a.st = "undef" \/ b.st = "undef" THEN RefUndef
    ELSE IF op \in {"Div", "Mod"} /\ b.st = "ok" /\ b.n = 0 THEN RefUndef
    ELSE IF a.st = "big" \/ b.st = "big" THEN RefBig
    ELSE CASE op = "Add"  -> RefNorm(a.n * b.d + b.n * a.d, a.d * b.d)
           [] op = "Sub"  -> RefNorm(a.n * b.d - b.n * a.d, a.d * b.d)
           [] op = "Mult" -> RefNorm(a.n * b.n, a.d * b.d)
           [] op = "Div"  -> IF b.n = 0 THEN RefUndef
                             ELSE RefNorm(a.n * b.d, a.d * b.n)
           [] op = "Mod"  ->
                \* a - b * floor(a / b)
                IF b.n = 0 THEN RefUndef
                ELSE LET num == a.n * b.d * Sign(b.n)
                         den == a.d * Abs(b.n)
                         fl  == IF num >= 0 THEN num \div den
                                ELSE -((-num + den - 1) \div den)
                     IN  IF Abs(fl) > Cap THEN RefBig
                         ELSE RefNorm(a.n * b.d - fl * b.n * a.d, a.d * b.d)
           [] op = "Pow"  ->
                IF b.d # 1
                THEN IF a.n # 0 THEN RefBig
                     ELSE IF b.n > 0 THEN RefVal(0, 1) ELSE RefUndef
                ELSE IF b.n >= 0
                     THEN IF Abs(IPow(a.n, b.n)) > Cap \/ IPow(a.d, b.n) > Cap THEN RefBig
                          ELSE RefNorm(IPow(a.n, b.n), IPow(a.d, b.n))
                ELSE IF a.n = 0 THEN RefUndef
                ELSE IF Abs(IPow(a.n, -b.n)) > Cap \/ IPow(a.d, -b.n) > Cap THEN RefBig
                     ELSE RefNorm(IPow(a.d, -b.n), IPow(a.n, -b.n))

RECURSIVE RefValue(_)
RefValue(node) ==
    IF node.type = "Num" THEN RefVal(node.n.n, node.n.d)
    ELSE IF node.type = "UnaryOp"
         THEN LET x == RefValue(node.kids[1])
              IN  IF node.op = "USub" /\ x.st = "ok" THEN RefVal(-x.n, x.d) ELSE x
    ELSE RefBin(node.op, RefValue(node.kids[1]), RefValue(node.kids[2]))

\* Built only from numeric literals, binary + - * / % ** and unary + -.
RECURSIVE ValidArith(_)
ValidArith(node) ==
    \/ node.type = "Num"
    \/ /\ node.type = "UnaryOp" /\ node.op \in {"USub", "UAdd"}
       /\ ValidArith(node.kids[1])
    \/ /\ node.type = "BinOp"
       /\ node.op \in {"Add", "Sub", "Mult", "Div", "Mod", "Pow"}
       /\ ValidArith(node.kids[1]) /\ ValidArith(node.kids[2])

Lit(i) == NumNode(IntV(i))

---------------------------------------------------------------------------
(* The properties.                                                         *)

\* The children of a node of another kind are never evaluated, and the node
\* itself only raises.
OthersNotExecuted ==
    LET log == TheLog
    IN  \A p \in Others, i \in 1..Len(log) :
            /\ ~Below(log[i].path, p)
            /\ log[i].path = p => log[i].ev = "raise"

\* C2 as stated: safe_eval returns a number only if every node of the tree
\* is a number literal, a binary or a unary operation; if any node at any
\* depth is of another kind, evaluation fails with UnsupportedExpression,
\* and no such construct is executed.
C2_Original ==
    Evaluated =>
        /\ IsVal(TheOut) => Others = {}
        /\ Others # {} => IsExc(TheOut) /\ TheOut.kind = "UnsupportedExpression"
        /\ OthersNotExecuted

\* C2 as amended: safe_eval returns a number only if every node is a number
\* literal, a binary or a unary operation; if any node is of another kind,
\* evaluation fails: with UnsupportedExpression raised at the first such
\* node in left-to-right post-order, unless a node before it in that order
\* fails first, with a division by zero or an UnsupportedOperator; and no
\* such construct, nor anything inside it, is evaluated.
C2_OtherNodesFail ==
    Returned =>
        /\ IsVal(TheOut) => Others = {}
        /\ Others # {} =>
              LET po == PostOrder(TheTree, <<>>)
                  tops == TopOthers
                  q == CHOOSE p \in tops : \A r \in tops : Pos(po, p) <= Pos(po, r)
              IN  /\ IsExc(TheOut)
                  /\ \/ TheOut = Exc("UnsupportedExpression", q)
                     \/ /\ Pos(po, TheOut.at) < Pos(po, q)
                        /\ TheOut.kind \in {"ZeroDivisionError", "UnsupportedOperator"}
        /\ OthersNotExecuted

\* C2's case: a node of another kind below the root whose failure is hidden
\* by a division by zero before it.
C2_Witness ==
    /\ pc[1] = "done"
    /\ Others # {} /\ <<>> \notin Others
    /\ TheOut.kind = "ZeroDivisionError"
    /\ resp[1] = ErrorResponse("ZeroDivisionError")

\* C3: an operator tag outside the allow-list makes evaluation fail closed.
\* For every binary or unary operation whose tag is not in
\* ALLOWED_OPERATORS no function is applied and the evaluation returns no
\* result; when its operands have been evaluated successfully the lookup
\* raises UnsupportedOperator at that node and that is the outcome.  The
\* allow-list is the mapping it was at start.
C3_FailClosed ==
    /\ allowed = ALLOWED_OPERATORS
    /\ Returned =>
          LET log == TheLog
              ops == {p \in ThePaths : Sub(TheTree, p).type \in {"BinOp", "UnaryOp"}}
          IN  \A p \in ops :
                  LET node == Sub(TheTree, p)
                  IN  node.op \notin DOMAIN allowed =>
                         /\ IsExc(TheOut)
                         /\ ~\E i \in 1..Len(log) :
                                log[i].path = p /\ log[i].ev = "apply"
                         /\ (\A k \in 1..Len(node.kids) :
                                Visited(p \o <<k>>) /\ IsVal(Alone(p \o <<k>>)))
                                => TheOut = Exc("UnsupportedOperator", p)

\* C3's case: an operation below the root with an operator outside the
\* allow-list, its operands evaluated, answered with the failure.
C3_Witness ==
    /\ pc[1] = "done"
    /\ TheOut.kind = "UnsupportedOperator" /\ Len(TheOut.at) > 0
    /\ Sub(TheTree, TheOut.at).type = "BinOp"
    /\ Visited(TheOut.at \o <<2>>)
    /\ resp[1] = ErrorResponse("UnsupportedOperator")

C6_MatchesReference ==
    (Returned /\ ValidArith(TheTree)) =>
        LET ref == RefValue(TheTree)
        IN  /\ ref.st = "ok" => /\ IsVal(TheOut)
                                /\ TheOut.v.n = ref.n /\ TheOut.v.d = ref.d
            /\ ref.st = "undef" => TheOut.kind = "ZeroDivisionError"
            /\ TheTree = BinOp(Lit(2), "Add", BinOp(Lit(3), "Mult", Lit(4)))
                  => TheOut = Val(IntV(14))
            /\ TheTree = BinOp(BinOp(Lit(2), "Add", Lit(3)), "Mult", Lit(4))
                  => TheOut = Val(IntV(20))
            /\ TheTree = BinOp(Lit(4), "Mod", Lit(3)) => TheOut = Val(IntV(1))

\* C6's case: 2+3*4 has been evaluated and answered.
C6_Witness ==
    /\ pc[1] = "done"
    /\ TheTree = BinOp(Lit(2), "Add", BinOp(Lit(3), "Mult", Lit(4)))
    /\ resp[1].ok /\ resp[1].result = IntV(14)

\* C9: in a binary operation the left operand is evaluated before the right
\* one and both before the operator is looked up (in a unary operation the
\* operand before the lookup), so the failure reported is the first in
\* left-to-right post-order: a failing left operand decides the outcome
\* whatever the right operand does, and a failing operand decides it
\* whatever the operator tag is.
C9_EvaluationOrder ==
    Returned =>
        LET log == TheLog
            po == PostOrder(TheTree, <<>>)
            ops == {p \in Range(po) : Sub(TheTree, p).type \in {"BinOp", "UnaryOp"}}
            bins == {p \in ops : Sub(TheTree, p).type = "BinOp"}
        IN  /\ \A p \in bins :
                  LET ls == {i \in 1..Len(log) : Under(log[i].path, p \o <<1>>)}
                      rs == {i \in 1..Len(log) : Under(log[i].path, p \o <<2>>)}
                  IN  \A i \in ls, j \in rs : i < j
            /\ \A p \in ops :
                  LET xs == {i \in 1..Len(log) : Below(log[i].path, p)}
                      at == {i \in 1..Len(log) : log[i].path = p}
                  IN  \A i \in xs, j \in at : i < j
            /\ \A p \in bins :
                  LET l == Alone(p \o <<1>>)
                      r == Alone(p \o <<2>>)
                  IN  /\ IsExc(l) => Alone(p) = l
                      /\ (IsVal(l) /\ IsExc(r)) => Alone(p) = r
            /\ IsExc(TheOut) =>
                  /\ log[Len(log)].path = TheOut.at
                  /\ \A i \in 1..Len(log) :
                        Pos(po, log[i].path) <= Pos(po, TheOut.at)

\* C9's case: a binary operation with an operator outside the allow-list
\* whose operands both fail on their own; the left one's failure is the
\* answer.
C9_Witness ==
    /\ pc[1] = "done"
    /\ TheTree.type = "BinOp" /\ TheTree.op \notin DOMAIN allowed
    /\ IsExc(Alone(<<1>>)) /\ IsExc(Alone(<<2>>))
    /\ Alone(<<1>>).kind = "ZeroDivisionError"
    /\ Alone(<<2>>).kind # "ZeroDivisionError"
    /\ resp[1] = ErrorResponse("ZeroDivisionError")


\* C1 as stated: whatever body reaches /eval, a failure is returned as
\* {ok: false, error: ...} and none leaves the handler uncaught.
C1_AllFailuresReturned ==
    \A t \in Threads :
        /\ pc[t] # "fault"
        /\ (pc[t] = "done" /\ ~resp[t].ok) => resp[t] = ErrorResponse(resp[t].error)

\* The condition read on the trimmed input: trimmed, it ends with '%' and
\* what stands before, less at most one decimal point, is all digits.
IsPercentSuffixTrimmed(c) ==
    EndsWithPercent(Strip(c)) /\ IsDigit(RemoveFirstDot(Strip(AllButLast(Strip(c)))))

\* The forms "(<N>)/100" of a string ending in '%', N read from the string
\* as received or from the trimmed one.
RewriteForms(c) ==
    {<<"(">> \o n \o <<")", "/", "1", "0", "0">> :
        n \in {AllButLast(c), AllButLast(Strip(c)), Strip(AllButLast(Strip(c)))}}

\* C5 as stated: if the trimmed input ends with '%' and what stands before
\* it, less at most one decimal point, is all digits, the evaluator gets
\* "(<N>)/100"; every other input reaches the evaluator without the rewrite.
C5_PercentOfTrimmedInput ==
    \A t \in Threads :
        pc[t] = "clean" =>
            LET c == ReplaceSymbols(expr[t].s)
            IN  IF IsPercentSuffixTrimmed(c)
                THEN cleaned[t] \in RewriteForms(c)
                ELSE cleaned[t] = c

\* C7 as stated: every /eval response is {ok: true, result, input} with
\* input the expression as received, or {ok: false, error}.
C7_TwoShapes ==
    \A t \in Threads :
        Finished(t) =>
            \/ /\ resp[t].status = 200 /\ resp[t].ok
               /\ resp[t].keys = {"ok", "result", "input"}
               /\ resp[t].input = body[t].expr
            \/ /\ resp[t].status = 200 /\ ~resp[t].ok
               /\ resp[t].keys = {"ok", "error"}

\* The locals of a request thread.
Locals(t) == <<pc[t], body[t], expr[t], cleaned[t], parsed[t], result[t], exc[t], resp[t]>>

\* C8: the same request body always gets the same response, whatever ran
\* before it and whatever the other thread does meanwhile; and a step of one
\* thread writes neither the allow-list nor a local of the other thread.
C8_Idempotent ==
    /\ [](\A t \in Threads :
            (Finished(t) /\ ghost.set /\ body[t] = ghost.body) => resp[t] = ghost.resp)
    /\ [](\A t, u \in Threads :
            (Finished(t) /\ Finished(u) /\ body[t] = body[u]) => resp[t] = resp[u])
    /\ [][/\ allowed' = allowed
          /\ \A t, u \in Threads :
                (t # u /\ Locals(t)' # Locals(t)) => Locals(u)' = Locals(u)]_vars

\* C8's case: thread 2 has answered "50%" as thread 1 once did, thread 1
\* being in the middle of another request.
C8_Witness ==
    /\ ghost.set /\ ghost.by = 1
    /\ ghost.body = StringBody(Chars("5", "0", "%"))
    /\ pc[2] = "done" /\ body[2] = ghost.body /\ resp[2].ok
    /\ pc[1] \in {"clean", "parsed"} /\ body[1] # ghost.body

\* C10 as stated: a request to /api/calculate ends with status 200 and
\* {'result': ...} when both numbers convert, the operation is one of the
\* four and it is no division by zero, and with status 400 and
\* {'error': ...} otherwise; a request with an invalid number and an invalid
\* operation reports the invalid input.
C10_TwoOutcomes ==
    cpc = "done" =>
        LET converts == /\ creq.isdict
                        /\ creq.num1.kind = "num" /\ creq.num2.kind = "num"
            valid == /\ converts
                     /\ creq.operation \in {"add", "subtract", "multiply", "divide"}
                     /\ ~(creq.operation = "divide" /\ creq.num2.v.n = 0)
        IN  /\ IF valid
               THEN cresp.status = 200 /\ cresp.keys = {"result"}
               ELSE cresp.status = 400 /\ cresp.keys = {"error"}
            /\ ~converts =>
                  cresp.error = "Invalid input! Please provide valid numbers."

=============================================================================
